---------------------------- MODULE Spec2Model ----------------------------
(***************************************************************************)
(* A model of djarchive_client.DJArchiveClient: the manifest codec, the    *)
(* upload protocol (create mode and verify mode) and the download          *)
(* protocol, over a local filesystem and a flat object store.              *)
(*                                                                         *)
(* Strings are sequences of one-character strings, so that the string      *)
(* operations of the source (replace, commonprefix, lstrip, split, join)   *)
(* are computed character by character as Python computes them.  File      *)
(* sizes are lengths of such sequences.                                    *)
(***************************************************************************)
EXTENDS Integers, Sequences, FiniteSets, TLC

(***************************************************************************)
(* Python string operations used by the source.                            *)
(***************************************************************************)

\* s[i..] starts with old
StartsWithAt(s, old, i) ==
    /\ i + Len(old) - 1 <= Len(s)
    /\ SubSeq(s, i, i + Len(old) - 1) = old

RECURSIVE RemoveFrom(_, _, _)
RemoveFrom(s, old, i) ==
    IF i > Len(s) THEN << >>
    ELSE IF StartsWithAt(s, old, i)
         THEN RemoveFrom(s, old, i + Len(old))
         ELSE <<s[i]>> \o RemoveFrom(s, old, i + 1)

\* str.replace(old, ''): every non-overlapping occurrence of old, scanning
\* from the left, is removed; an empty old leaves the string as it is.
StrRemove(s, old) == IF old = << >> THEN s ELSE RemoveFrom(s, old, 1)

RECURSIVE CommonPrefixLen(_, _, _)
CommonPrefixLen(a, b, i) ==
    IF i <= Len(a) /\ i <= Len(b) /\ a[i] = b[i]
    THEN CommonPrefixLen(a, b, i + 1)
    ELSE i - 1

\* os.path.commonprefix((a, b)): the longest common prefix, character-wise
commonprefix(a, b) == SubSeq(a, 1, CommonPrefixLen(a, b, 1))

RECURSIVE LStrip(_, _)
\* str.lstrip(c) for a one-character c
LStrip(s, c) == IF s # << >> /\ Head(s) = c THEN LStrip(Tail(s), c) ELSE s

RECURSIVE RStrip(_, _)
RStrip(s, c) ==
    IF s # << >> /\ s[Len(s)] = c THEN RStrip(SubSeq(s, 1, Len(s) - 1), c) ELSE s

Whitespace == {" ", "\n"}

RECURSIVE StripL(_)
StripL(s) == IF s # << >> /\ Head(s) \in Whitespace THEN StripL(Tail(s)) ELSE s

RECURSIVE StripR(_)
StripR(s) ==
    IF s # << >> /\ s[Len(s)] \in Whitespace
    THEN StripR(SubSeq(s, 1, Len(s) - 1)) ELSE s

\* str.strip(): whitespace removed at both ends
Strip(s) == StripR(StripL(s))

RECURSIVE SplitFrom(_, _, _, _)
SplitFrom(s, c, i, cur) ==
    IF i > Len(s) THEN <<cur>>
    ELSE IF s[i] = c
         THEN <<cur>> \o SplitFrom(s, c, i + 1, << >>)
         ELSE SplitFrom(s, c, i + 1, Append(cur, s[i]))

\* str.split(c) for a one-character separator: ''.split(c) is ['']
Split(s, c) == SplitFrom(s, c, 1, << >>)

\* the character removed everywhere: str.replace(c, '')
RemoveChar(s, c) == StrRemove(s, <<c>>)

\* str.replace(a, b) for one-character a and b
ReplaceChar(s, a, b) == [i \in 1..Len(s) |-> IF s[i] = a THEN b ELSE s[i]]

sep == "/"

\* posixpath.join(a, b)
PathJoin2(a, b) ==
    IF b # << >> /\ Head(b) = sep THEN b
    ELSE IF a = << >> \/ a[Len(a)] = sep THEN a \o b
    ELSE a \o <<sep>> \o b

RECURSIVE PathJoinAll(_, _)
\* posixpath.join(a, *parts)
PathJoinAll(a, parts) ==
    IF parts = << >> THEN a
    ELSE PathJoinAll(PathJoin2(a, Head(parts)), Tail(parts))

RECURSIVE LastSepIndex(_, _)
LastSepIndex(p, i) ==
    IF i = 0 THEN 0 ELSE IF p[i] = sep THEN i ELSE LastSepIndex(p, i - 1)

\* posixpath.split(p): (head, tail)
PathSplit(p) ==
    LET i    == LastSepIndex(p, Len(p))
        head == SubSeq(p, 1, i)
        tail == SubSeq(p, i + 1, Len(p))
    IN  <<IF head # << >> /\ RStrip(head, sep) # << >>
          THEN RStrip(head, sep) ELSE head,
          tail>>

Digits == <<"0", "1", "2", "3", "4", "5", "6", "7", "8", "9">>

RECURSIVE FormatInt(_)
\* '{}'.format(n) for n >= 0: decimal digits
FormatInt(n) ==
    IF n < 10 THEN <<Digits[n + 1]>>
    ELSE FormatInt(n \div 10) \o <<Digits[(n % 10) + 1]>>

DigitValue(c) == CHOOSE d \in 0..9 : Digits[d + 1] = c

IsDigits(s) == s # << >> /\ \A i \in 1..Len(s) : \E d \in 1..10 : Digits[d] = s[i]

RECURSIVE ParseDigits(_)
ParseDigits(s) ==
    IF Len(s) = 1 THEN DigitValue(s[1])
    ELSE 10 * ParseDigits(SubSeq(s, 1, Len(s) - 1)) + DigitValue(s[Len(s)])


(***************************************************************************)
(* Program constants and the arguments the operations are called with.     *)
(***************************************************************************)

MANIFEST_FNAME ==
    <<"d", "j", "a", "r", "c", "h", "i", "v", "e", "-",
      "m", "a", "n", "i", "f", "e", "s", "t", ".", "c", "s", "v">>

source_directory == <<"/", "s">>
target_directory == <<"/", "t">>
dataset_name     == <<"d">>
revision         == <<"r">>

\* File contents are sequences over this alphabet.
c1 == <<"x">>
c2 == <<"y", "x", "y">>
Contents == {c1, c2}

(***************************************************************************)
(* The local filesystem.  fs maps the resolved path of every regular file  *)
(* (a sequence of path segments) to its content; dirs is the set of        *)
(* resolved paths of the directories.  A path string is resolved segment   *)
(* by segment as the kernel does: '' and '.' stay, '..' goes up, and every *)
(* directory passed through must exist.                                    *)
(***************************************************************************)

Front(s) == SubSeq(s, 1, Len(s) - 1)

IsPrefixSeq(a, b) == Len(a) <= Len(b) /\ SubSeq(b, 1, Len(a)) = a

RECURSIVE ResolveFrom(_, _, _)
ResolveFrom(segs, cur, D) ==
    IF segs = << >> THEN [ok |-> TRUE, path |-> cur]
    ELSE IF cur \notin D THEN [ok |-> FALSE, path |-> cur]
    ELSE LET h == Head(segs) IN
         IF h = << >> \/ h = <<".">> THEN ResolveFrom(Tail(segs), cur, D)
         ELSE IF h = <<".", ".">>
              THEN ResolveFrom(Tail(segs),
                               IF cur = << >> THEN cur ELSE Front(cur), D)
              ELSE ResolveFrom(Tail(segs), Append(cur, h), D)

\* the file or directory an absolute path string names, given directories D
Resolve(p, D) == ResolveFrom(Split(p, sep), << >>, D)

\* the same without the existence checks (os.path.normpath)
RECURSIVE NormFrom(_, _)
NormFrom(segs, cur) ==
    IF segs = << >> THEN cur
    ELSE LET h == Head(segs) IN
         IF h = << >> \/ h = <<".">> THEN NormFrom(Tail(segs), cur)
         ELSE IF h = <<".", ".">>
              THEN NormFrom(Tail(segs), IF cur = << >> THEN cur ELSE Front(cur))
              ELSE NormFrom(Tail(segs), Append(cur, h))

NormPath(p) == NormFrom(Split(p, sep), << >>)

\* os.path.exists(p)
PathExists(p, F, D) ==
    LET r == Resolve(p, D) IN r.ok /\ (r.path \in D \/ r.path \in DOMAIN F)

\* open(p, 'rb') succeeds
CanRead(p, F, D) ==
    LET r == Resolve(p, D) IN r.ok /\ r.path \in DOMAIN F

\* the bytes read from p
ReadFile(p, F, D) == F[Resolve(p, D).path]

\* open(p, 'wb') succeeds: the parent is a directory and p is not one
CanWrite(p, F, D) ==
    LET r == Resolve(p, D) IN r.ok /\ r.path # << >> /\ r.path \notin D

\* the filesystem with content c stored in the file p names
WriteFile(p, c, F, D) ==
    LET q == Resolve(p, D).path
    IN  [f \in DOMAIN F \cup {q} |-> IF f = q THEN c ELSE F[f]]

RECURSIVE MakeDirsFrom(_, _, _)
MakeDirsFrom(segs, cur, D) ==
    IF segs = << >> THEN D
    ELSE LET h == Head(segs) IN
         IF h = << >> \/ h = <<".">> THEN MakeDirsFrom(Tail(segs), cur, D)
         ELSE IF h = <<".", ".">>
              THEN MakeDirsFrom(Tail(segs),
                                IF cur = << >> THEN cur ELSE Front(cur), D)
              ELSE MakeDirsFrom(Tail(segs), Append(cur, h),
                                D \cup {Append(cur, h)})

\* os.makedirs(p, exist_ok=True): the directories afterwards
makedirs(p, D) == MakeDirsFrom(Split(p, sep), << >>, D)

\* os.makedirs fails when a component to create is a regular file
MakedirsOk(p, F, D) == makedirs(p, D) \cap DOMAIN F = {}

(***************************************************************************)
(* os.walk(top): the file paths, each os.path.join(root, f), in an order   *)
(* a top-down walk can produce: the files of a directory come before the   *)
(* files of its subdirectories and each subtree is walked in one piece;    *)
(* the order inside one directory listing is the operating system's.       *)
(***************************************************************************)

FilesUnder(top, F, D) ==
    LET t == Resolve(top, D).path
    IN  {f \in DOMAIN F : IsPrefixSeq(t, f) /\ f # t}

DirOf(f) == Front(f)

IsWalkOrder(w, S) ==
    /\ {w[i] : i \in 1..Len(w)} = S
    /\ Len(w) = Cardinality(S)
    /\ \A i, j \in 1..Len(w) :
          (IsPrefixSeq(DirOf(w[i]), DirOf(w[j])) /\ DirOf(w[i]) # DirOf(w[j]))
              => i < j
    /\ \A i, j, k \in 1..Len(w) :
          (i < j /\ j < k) =>
              \A m \in 0..Len(DirOf(w[i])) :
                  (/\ IsPrefixSeq(SubSeq(w[i], 1, m), DirOf(w[k])))
                      => IsPrefixSeq(SubSeq(w[i], 1, m), DirOf(w[j]))

\* the path string os.walk hands out for the file f below top
WalkPath(top, f, D) ==
    PathJoinAll(top, SubSeq(f, Len(Resolve(top, D).path) + 1, Len(f)))

WalkOrders(top, F, D) ==
    LET S == FilesUnder(top, F, D)
        n == Cardinality(S)
    IN  {[i \in 1..n |-> WalkPath(top, w[i], D)] :
            w \in {v \in [1..n -> S] : IsWalkOrder(v, S)}}


(***************************************************************************)
(* Digest: size in bytes and the sha256 hex digest.  The hash is modelled  *)
(* as collision free: a hex string that determines the content.            *)
(***************************************************************************)

HexOf(c) == IF c = "x" THEN "0" ELSE IF c = "y" THEN "1" ELSE "f"

hexdigest(content) == <<"e">> \o [i \in 1..Len(content) |-> HexOf(content[i])]

\* _manifest(filepath): <<size, sha>> of the file's content
ManifestOf(content) == <<Len(content), hexdigest(content)>>

(***************************************************************************)
(* PathCodec                                                               *)
(***************************************************************************)

_normalize_path(root_directory, filepath) ==
    ReplaceChar(
        LStrip(StrRemove(filepath, commonprefix(root_directory, filepath)), sep),
        sep, "/")

_denormalize_path(root_directory, subpath) ==
    PathJoin2(root_directory, ReplaceChar(subpath, "/", sep))

(***************************************************************************)
(* Manifest file format.                                                   *)
(***************************************************************************)

Quote == "\""

\* '"{}","{}","{}"\n'.format(fp_sz, fp_sha, subp)
FormatEntry(fp_sz, fp_sha, subp) ==
    <<Quote>> \o FormatInt(fp_sz) \o <<Quote, ",", Quote>> \o fp_sha
        \o <<Quote, ",", Quote>> \o subp \o <<Quote, "\n">>

RECURSIVE LinesFrom(_, _, _)
LinesFrom(s, i, cur) ==
    IF i > Len(s) THEN (IF cur = << >> THEN << >> ELSE <<cur>>)
    ELSE IF s[i] = "\n"
         THEN <<Append(cur, "\n")>> \o LinesFrom(s, i + 1, << >>)
         ELSE LinesFrom(s, i + 1, Append(cur, s[i]))

\* iterating a file opened 'rb': its lines, each with its newline
FileLines(s) == LinesFrom(s, 1, << >>)

RECURSIVE ReadEntries_NoAssert(_, _)
\* (mutant) the loop without its assertion on repeated subpaths: a later
\* line replaces the entry of an earlier one
ReadEntries_NoAssert(lines, ret) ==
    IF lines = << >> THEN [err |-> "", ret |-> ret]
    ELSE LET ent == Split(Strip(Head(lines)), ",") IN
         IF Len(ent) # 3 THEN [err |-> "ValueError", ret |-> ret]
         ELSE LET sz   == RemoveChar(ent[1], Quote)
                  sha  == RemoveChar(ent[2], Quote)
                  subp == RemoveChar(ent[3], Quote)
              IN  IF ~IsDigits(sz)
                  THEN [err |-> "ValueError", ret |-> ret]
                  ELSE ReadEntries_NoAssert(
                         Tail(lines),
                         [k \in DOMAIN ret \cup {subp} |->
                             IF k = subp
                             THEN [size |-> ParseDigits(sz), sha |-> sha]
                             ELSE ret[k]])

RECURSIVE ReadEntries(_, _)
\* the loop of read_manifest over the lines left, ret being the dictionary
\* built so far
ReadEntries(lines, ret) ==
    IF lines = << >> THEN [err |-> "", ret |-> ret]
    ELSE LET ent == Split(Strip(Head(lines)), ",") IN
         IF Len(ent) # 3 THEN [err |-> "ValueError", ret |-> ret]
         ELSE LET sz   == RemoveChar(ent[1], Quote)
                  sha  == RemoveChar(ent[2], Quote)
                  subp == RemoveChar(ent[3], Quote)
              IN  IF subp \in DOMAIN ret
                  THEN [err |-> "AssertionError", ret |-> ret]
                  ELSE IF ~IsDigits(sz)
                  THEN [err |-> "ValueError", ret |-> ret]
                  ELSE ReadEntries(
                         Tail(lines),
                         [k \in DOMAIN ret \cup {subp} |->
                            IF k = subp
                            THEN [size |-> ParseDigits(sz), sha |-> sha]
                            ELSE ret[k]])

\* read_manifest(dir): err is '' and ret the dictionary, or err names the
\* exception raised
read_manifest(dir, F, D) ==
    LET mani == PathJoin2(dir, MANIFEST_FNAME) IN
    IF ~CanRead(mani, F, D) THEN [err |-> "FileNotFoundError", ret |-> << >>]
    ELSE ReadEntries(FileLines(ReadFile(mani, F, D)), << >>)

RECURSIVE ManifestText(_, _, _, _, _)
\* the entries write_manifest writes for the files of the walk w
ManifestText(dir, mani, w, F, D) ==
    IF w = << >> THEN << >>
    ELSE LET fp == Head(w) IN
         IF fp = mani THEN ManifestText(dir, mani, Tail(w), F, D)
         ELSE LET subp == _normalize_path(dir, fp)
                  m    == ManifestOf(ReadFile(fp, F, D))
              IN  FormatEntry(m[1], m[2], subp)
                      \o ManifestText(dir, mani, Tail(w), F, D)

(***************************************************************************)
(* The object store: a bucket mapping keys to object contents.             *)
(***************************************************************************)

CharOrder ==
    <<"\n", " ", "\"", ",", "-", ".", "/",
      "0", "1", "2", "3", "4", "5", "6", "7", "8", "9",
      "a", "b", "c", "d", "e", "f", "g", "h", "i", "j", "k", "l", "m",
      "n", "o", "p", "q", "r", "s", "t", "u", "v", "w", "x", "y", "z">>

Ord(c) == CHOOSE i \in 1..Len(CharOrder) : CharOrder[i] = c

RECURSIVE KeyLess(_, _)
\* a sorts before b in the store's listing order (byte order)
KeyLess(a, b) ==
    IF a = << >> THEN b # << >>
    ELSE IF b = << >> THEN FALSE
    ELSE IF Head(a) = Head(b) THEN KeyLess(Tail(a), Tail(b))
    ELSE Ord(Head(a)) < Ord(Head(b))

RECURSIVE SortKeys(_)
SortKeys(S) ==
    IF S = {} THEN << >>
    ELSE LET k == CHOOSE x \in S : \A y \in S \ {x} : KeyLess(x, y)
         IN  <<k>> \o SortKeys(S \ {k})

\* client.list_objects(bucket, recursive=True, prefix=pfx): the keys that
\* start with pfx, in listing order
list_objects(pfx, st) ==
    SortKeys({k \in DOMAIN st : IsPrefixSeq(pfx, k)})

\* client.fput_object(bucket, dpath, lpath): the bucket afterwards
PutObject(st, dpath, content) ==
    [k \in DOMAIN st \cup {dpath} |-> IF k = dpath THEN content ELSE st[k]]

\* ufs.join(name, revision, subp)
ObjectKey(subp) == PathJoinAll(dataset_name, <<revision, subp>>)


(***************************************************************************)
(* Bounds of the model.                                                    *)
(***************************************************************************)

MaxUploads   == 2
MaxDownloads == 2
MaxCorrupt   == 1
MaxEdits     == 1
MaxSize      == 5
MaxDepth     == 2

\* fget_object's chunk size.  Sizes are counted in units of 512 KiB, so the
\* 1 MiB chunk of the source is 2 units.
chunksz == 2

(***************************************************************************)
(* State.                                                                  *)
(***************************************************************************)

VARIABLES
    fs,      \* local regular files: resolved path -> content
    dirs,    \* local directories: set of resolved paths
    store,   \* the bucket: object key -> content
    pc,      \* where the client is: "idle" or a position inside an operation
    up,      \* the running (or last) upload: its locals, its puts, its result
    dl,      \* the running (or last) download: its locals and its result
    fg,      \* the running fget_object: its locals
    wm,      \* the last write_manifest call: overwrite, result, file before
    rm,      \* the last read_manifest call: what it returned or raised
    hist,    \* what happened since the last finished download
    cnt,     \* how many uploads, downloads, local edits were started
    call     \* the running (or last) call of another method: its arguments,
             \* its locals and what it returned or raised

vars == <<fs, dirs, store, pc, up, dl, fg, wm, rm, hist, cnt, call>>

mani_fp == PathJoin2(source_directory, MANIFEST_FNAME)

\* ufs.join(dataset_name, revision)
pfx == PathJoin2(dataset_name, revision)

ManifestKey == PathJoin2(pfx, MANIFEST_FNAME)

SrcDir == <<<<"s">>>>
TgtDir == <<<<"t">>>>

\* the files a source tree of the model may hold
SrcFiles == {<<<<"s">>, <<"a">>>>, <<<<"s">>, <<"b">>, <<"a">>>>}

\* the value standing for a file that does not exist (no content equals it)
Absent == <<"absent">>

\* every parent directory of the files in S
ParentsOf(S) == UNION {{SubSeq(f, 1, n) : n \in 0..(Len(f) - 1)} : f \in S}

TreeFrom(S, t) == [f \in {g \in S : t[g] # Absent} |-> t[f]]

NoUpload ==
    [mode |-> "none", walk |-> << >>, idx |-> 1, step |-> "put",
     mani_dat |-> << >>, buf |-> << >>, log |-> << >>,
     hadMani |-> FALSE, result |-> ""]

NoDownload ==
    [mani |-> << >>, listing |-> << >>, idx |-> 1,
     nfound |-> 0, nerr |-> 0, ssubp |-> << >>, lpath |-> << >>,
     fetched |-> << >>, written |-> {},
     fresh |-> FALSE, afterClean |-> FALSE, corrupted |-> {},
     partial |-> FALSE, midfetch |-> {}, completed |-> {},
     at |-> "", result |-> ""]

NoFget == [spath |-> << >>, lpath |-> << >>, offset |-> 0, todo |-> << >>,
           reads |-> << >>, cont |-> ""]

NoWrite == [overwrite |-> FALSE, result |-> "", before |-> Absent]

NoRead == [called |-> FALSE, err |-> "", ret |-> << >>]

NoHist == [prevClean |-> FALSE, corrupted |-> {}, partial |-> FALSE,
           midfetch |-> {}, completed |-> {}, walkcut |-> FALSE]

NoCall == [op |-> "none"]

InitCommon ==
    /\ store = << >>
    /\ pc = "idle"
    /\ up = NoUpload
    /\ dl = NoDownload
    /\ fg = NoFget
    /\ wm = NoWrite
    /\ rm = NoRead
    /\ hist = NoHist
    /\ cnt = [up |-> 0, dl |-> 0, corrupt |-> 0, edit |-> 0]
    /\ call = NoCall

Init ==
    /\ \E t \in [SrcFiles -> Contents \cup {Absent}] : fs = TreeFrom(SrcFiles, t)
    /\ dirs = ParentsOf(SrcFiles)
    /\ InitCommon


(***************************************************************************)
(* write_manifest and read_manifest, called on source_directory.           *)
(***************************************************************************)

\* (mutant) the manifest is written whether or not one exists
write_manifest_NoCheck(dir, overwrite, F, D) ==
    LET mani == PathJoin2(dir, MANIFEST_FNAME)
        F1   == WriteFile(mani, << >>, F, D)
    IN  {[err |-> "",
          fs  |-> WriteFile(mani, ManifestText(dir, mani, w, F1, D), F1, D)] :
             w \in WalkOrders(dir, F1, D)}

\* write_manifest(dir, overwrite): the outcomes, one per walk order; err
\* names the exception raised ('' for none) and fs is the filesystem left
write_manifest(dir, overwrite, F, D) ==
    LET mani == PathJoin2(dir, MANIFEST_FNAME) IN
    IF PathExists(mani, F, D) /\ ~overwrite
    THEN {[err |-> "FileExistsError", fs |-> F]}
    ELSE LET F1 == WriteFile(mani, << >>, F, D) IN
         {[err |-> "",
           fs  |-> WriteFile(mani, ManifestText(dir, mani, w, F1, D), F1, D)] :
              w \in WalkOrders(dir, F1, D)}

\* The revision is published before a copy of it is downloaded: the
\* operations on the source side are followed as long as an upload can
\* still follow and no download has fetched the manifest.
Publishing ==
    /\ cnt.up < MaxUploads
    /\ ~PathExists(PathJoin2(target_directory, MANIFEST_FNAME), fs, dirs)

FileOrAbsent(p, F, D) == IF CanRead(p, F, D) THEN ReadFile(p, F, D) ELSE Absent

WriteManifest(overwrite) ==
    /\ pc = "idle"
    /\ Publishing
    /\ \E o \in write_manifest(source_directory, overwrite, fs, dirs) :
          /\ fs' = o.fs
          /\ wm' = [overwrite |-> overwrite,
                    result    |-> IF o.err = "" THEN "ok" ELSE o.err,
                    before    |-> FileOrAbsent(mani_fp, fs, dirs)]
          /\ hist' = [hist EXCEPT !.walkcut = @ /\ o.fs = fs]
    /\ pc' = "done"
    /\ UNCHANGED <<dirs, store, up, dl, fg, rm, cnt, call>>

ReadManifest ==
    /\ pc = "idle"
    /\ LET r == read_manifest(source_directory, fs, dirs)
       IN  rm' = [called |-> TRUE, err |-> r.err,
                  ret |-> IF r.err = "" THEN r.ret ELSE << >>]
    /\ pc' = "done"
    /\ UNCHANGED <<fs, dirs, store, up, dl, fg, wm, hist, cnt, call>>

\* the operation returns (or its exception reaches the caller): its locals
\* are gone
Return ==
    /\ pc = "done"
    /\ pc' = "idle"
    /\ up' = NoUpload
    /\ dl' = NoDownload
    /\ fg' = NoFget
    /\ wm' = NoWrite
    /\ rm' = NoRead
    /\ call' = NoCall
    /\ UNCHANGED <<fs, dirs, store, hist, cnt>>

(***************************************************************************)
(* upload(name, revision, source_directory)                                *)
(***************************************************************************)

\* (mutant) the loop stops one file early
ManifestDue_OneEarly(u) == u.idx >= Len(u.walk)

\* the loop over os.walk is over: the manifest is to be sent
ManifestDue(u) == u.idx > Len(u.walk)

\* upload: the mode is chosen by the presence of the manifest file; verify
\* mode loads it, create mode opens it for writing
UploadStart ==
    /\ pc = "idle"
    /\ Publishing
    /\ cnt' = [cnt EXCEPT !.up = @ + 1]
    /\ hist' = [hist EXCEPT !.prevClean = FALSE, !.partial = FALSE,
                            !.midfetch = {}, !.completed = {}]
    /\ LET had == ManifestKey \in DOMAIN store IN
       IF PathExists(mani_fp, fs, dirs)
       THEN LET r == read_manifest(source_directory, fs, dirs) IN
            /\ fs' = fs
            /\ IF r.err # ""
               THEN /\ up' = [NoUpload EXCEPT !.mode = "verify",
                                !.hadMani = had, !.result = r.err]
                    /\ pc' = "done"
               ELSE /\ \E w \in WalkOrders(source_directory, fs, dirs) :
                          up' = [NoUpload EXCEPT !.mode = "verify",
                                   !.hadMani = had, !.walk = w,
                                   !.mani_dat = r.ret, !.result = "running"]
                    /\ pc' = "upload"
       ELSE /\ fs' = WriteFile(mani_fp, << >>, fs, dirs)
            /\ \E w \in WalkOrders(source_directory, fs', dirs) :
                  up' = [NoUpload EXCEPT !.mode = "create", !.hadMani = had,
                           !.walk = w, !.result = "running"]
            /\ pc' = "upload"
    /\ UNCHANGED <<dirs, store, dl, fg, wm, rm, call>>

\* (mutant) the size and digest are not compared
VerifyEntry_NoCompare(mani_dat, subp, m) ==
    IF subp \notin DOMAIN mani_dat THEN "FileNotFoundError" ELSE ""

\* (mutant) a file without entry is let through
VerifyEntry_NoEntryCheck(mani_dat, subp, m) ==
    IF subp \in DOMAIN mani_dat
       /\ ~(m[1] = mani_dat[subp].size /\ m[2] = mani_dat[subp].sha)
    THEN "ValueError"
    ELSE ""

\* the checks of _upload_using_manifest on one file: the exception raised,
\* or '' when the file has its entry and agrees with it
VerifyEntry(mani_dat, subp, m) ==
    IF subp \notin DOMAIN mani_dat THEN "FileNotFoundError"
    ELSE IF ~(m[1] = mani_dat[subp].size /\ m[2] = mani_dat[subp].sha)
    THEN "ValueError"
    ELSE ""

\* one iteration of _upload_using_manifest's loop
UploadVerifyFile ==
    /\ pc = "upload"
    /\ up.mode = "verify"
    /\ ~ManifestDue(up)
    /\ LET fp   == up.walk[up.idx]
           subp == _normalize_path(source_directory, fp)
           m    == ManifestOf(ReadFile(fp, fs, dirs))
       IN  IF fp = mani_fp
           THEN /\ up' = [up EXCEPT !.idx = @ + 1]
                /\ UNCHANGED <<store, pc>>
           ELSE IF VerifyEntry(up.mani_dat, subp, m) # ""
           THEN /\ up' = [up EXCEPT !.result = VerifyEntry(up.mani_dat, subp, m)]
                /\ pc' = "done"
                /\ UNCHANGED store
           ELSE /\ store' = PutObject(store, ObjectKey(subp),
                                      ReadFile(fp, fs, dirs))
                /\ up' = [up EXCEPT !.idx = @ + 1,
                                    !.log = Append(@, ObjectKey(subp))]
                /\ UNCHANGED pc
    /\ UNCHANGED <<fs, dirs, dl, fg, wm, rm, hist, cnt, call>>

\* _upload_creating_manifest's loop, up to and including fput_object
UploadCreatePut ==
    /\ pc = "upload"
    /\ up.mode = "create"
    /\ up.step = "put"
    /\ ~ManifestDue(up)
    /\ LET fp   == up.walk[up.idx]
           subp == _normalize_path(source_directory, fp)
       IN  IF fp = mani_fp
           THEN /\ up' = [up EXCEPT !.idx = @ + 1]
                /\ UNCHANGED store
           ELSE /\ store' = PutObject(store, ObjectKey(subp),
                                      ReadFile(fp, fs, dirs))
                /\ up' = [up EXCEPT !.step = "entry",
                                    !.log = Append(@, ObjectKey(subp))]
    /\ UNCHANGED <<fs, dirs, pc, dl, fg, wm, rm, hist, cnt, call>>

\* ... and the entry written to the open manifest file (buffered)
UploadCreateEntry ==
    /\ pc = "upload"
    /\ up.mode = "create"
    /\ up.step = "entry"
    /\ LET fp   == up.walk[up.idx]
           subp == _normalize_path(source_directory, fp)
           m    == ManifestOf(ReadFile(fp, fs, dirs))
       IN  up' = [up EXCEPT !.step = "put", !.idx = @ + 1,
                            !.buf = @ \o FormatEntry(m[1], m[2], subp)]
    /\ UNCHANGED <<fs, dirs, store, pc, dl, fg, wm, rm, hist, cnt, call>>

\* the walk is over: the manifest file is closed (create mode) and sent
UploadManifest ==
    /\ pc = "upload"
    /\ up.step = "put"
    /\ ManifestDue(up)
    /\ fs' = IF up.mode = "create"
             THEN WriteFile(mani_fp, up.buf, fs, dirs) ELSE fs
    /\ store' = PutObject(store, ManifestKey, ReadFile(mani_fp, fs', dirs))
    /\ up' = [up EXCEPT !.log = Append(@, ManifestKey), !.result = "ok"]
    /\ pc' = "done"
    /\ UNCHANGED <<dirs, dl, fg, wm, rm, hist, cnt, call>>

\* create mode has a file of the walk whose entry is not written yet
EntriesPending(u) == \E j \in u.idx..Len(u.walk) : u.walk[j] # mani_fp

\* the upload ends before its manifest is sent: an exception out of a store
\* call unwinds through the with block, which flushes the manifest file;
\* a killed process leaves the file as it is on disk
UploadInterrupt ==
    /\ pc = "upload"
    /\ \E flushed \in BOOLEAN :
          fs' = IF up.mode = "create" /\ flushed
                THEN WriteFile(mani_fp, up.buf, fs, dirs) ELSE fs
    /\ up' = NoUpload
    /\ hist' = [hist EXCEPT !.partial = ~up.hadMani,
                            !.walkcut = IF up.mode = "create"
                                        THEN EntriesPending(up) ELSE @]
    /\ pc' = "idle"
    /\ UNCHANGED <<dirs, store, dl, fg, wm, rm, cnt, call>>


(***************************************************************************)
(* fget_object(spath, lpath): stat, then the object chunk by chunk.        *)
(***************************************************************************)

\* the chunker: nchunks chunks of chunksz, then the leftover if there is one
\* (mutant) the chunks without the leftover
Chunker_NoLeftover(size) == [i \in 1..(size \div chunksz) |-> chunksz]

\* chunker: the lengths of the reads for an object of the given size
Chunker(size) ==
    LET nchunks  == size \div chunksz
        leftover == size % chunksz
    IN  [i \in 1..nchunks |-> chunksz]
            \o (IF leftover # 0 THEN <<leftover>> ELSE << >>)

\* client.get_object(bucket, spath, offset=offset, length=length).data
get_object(st, spath, offset, length) ==
    SubSeq(st[spath], offset + 1, offset + length)

\* client.stat_object(bucket, key) finds the object
stat_object(st, key) == key \in DOMAIN st

\* the call of fget_object up to the open of lpath, in the directories D;
\* cont is where the caller goes on when the last chunk is written.  The
\* stat of an object that is not there raises before lpath is opened.
FgetBegin(d, spath, lpath, cont, D) ==
    IF ~stat_object(store, spath)
    THEN /\ dl' = [d EXCEPT !.result = "S3Error", !.at = "fget"]
         /\ pc' = "done"
         /\ UNCHANGED <<fs, fg>>
    ELSE LET todo == Chunker(Len(store[spath])) IN
         /\ dl' = [d EXCEPT !.written = @ \cup {Resolve(lpath, D).path}]
         /\ fs' = WriteFile(lpath, << >>, fs, D)
         /\ fg' = IF todo = << >> /\ cont # "done" THEN NoFget
                  ELSE [spath |-> spath, lpath |-> lpath, offset |-> 0,
                        todo |-> todo, reads |-> << >>, cont |-> cont]
         /\ pc' = IF todo = << >> THEN cont ELSE "fget"

\* one iteration of fget_object's loop
FgetChunk ==
    /\ pc = "fget"
    /\ LET chunk == Head(fg.todo)
           dat   == get_object(store, fg.spath, fg.offset, chunk)
       IN  /\ fs' = WriteFile(fg.lpath, ReadFile(fg.lpath, fs, dirs) \o dat,
                              fs, dirs)
           /\ fg' = IF Tail(fg.todo) = << >> /\ fg.cont # "done" THEN NoFget
                    ELSE [fg EXCEPT !.offset = @ + chunk, !.todo = Tail(@),
                                    !.reads = Append(@, <<fg.offset, chunk>>)]
           /\ pc' = IF Tail(fg.todo) = << >> THEN fg.cont ELSE "fget"
    /\ UNCHANGED <<dirs, store, up, dl, wm, rm, hist, cnt, call>>

\* fget_object(spath, lpath) called by itself, for an object of the bucket
\* and a file of the target directory
FgetCall ==
    /\ pc = "idle"
    /\ \E spath \in DOMAIN store :
          LET lpath == PathJoin2(target_directory, <<"o">>) IN
          IF ~CanWrite(lpath, fs, dirs)
          THEN /\ dl' = [NoDownload EXCEPT !.result = "OSError", !.at = "fget"]
               /\ pc' = "done"
               /\ UNCHANGED <<fs, fg>>
          ELSE FgetBegin(NoDownload, spath, lpath, "done", dirs)
    /\ UNCHANGED <<dirs, store, up, wm, rm, hist, cnt, call>>

\* get_object raises: the exception leaves fget_object, and the file is
\* closed with the chunks written before
FgetFail ==
    /\ pc = "fget"
    /\ dl' = [dl EXCEPT !.result = "S3Error", !.at = "get"]
    /\ pc' = "done"
    /\ UNCHANGED <<fs, dirs, store, up, fg, wm, rm, hist, cnt, call>>

(***************************************************************************)
(* download(dataset_name, revision, target_directory, create_target)       *)
(***************************************************************************)

\* the download ends with the exception err raised at the step at
DownloadFail(d, at, err) ==
    /\ dl' = [d EXCEPT !.result = err, !.at = at]
    /\ pc' = "done"

\* (mutant) the target directory is taken for present
TargetMissing_Never(F, D) == FALSE

\* if not os.path.exists(target_directory)
TargetMissing(F, D) == ~PathExists(target_directory, F, D)

\* the target directory is made or required, then the manifest is stat'ed
DownloadStart(create_target) ==
    /\ pc = "idle"
    /\ cnt.dl < MaxDownloads
    /\ cnt' = [cnt EXCEPT !.dl = @ + 1]
    /\ hist' = [hist EXCEPT !.prevClean = FALSE, !.corrupted = {},
                            !.midfetch = {}, !.completed = {}]
    /\ dirs' = IF create_target THEN makedirs(target_directory, dirs) ELSE dirs
    /\ LET d == [NoDownload EXCEPT !.fresh = FilesUnder(target_directory,
                                                        fs, dirs') = {},
                                   !.afterClean = hist.prevClean,
                                   !.partial = hist.partial,
                                   !.midfetch = hist.midfetch,
                                   !.completed = hist.completed,
                                   !.corrupted = hist.corrupted]
       IN  IF TargetMissing(fs, dirs')
           THEN DownloadFail(d, "target", "FileNotFoundError")
           ELSE /\ dl' = [d EXCEPT !.result = "running"]
                /\ pc' = "dl_stat"
    /\ UNCHANGED <<fs, store, up, fg, wm, rm, call>>

\* (mutant) the revision is taken for published whatever the store holds
ManifestMissing_Never(st) == FALSE

\* if not self.client.stat_object(self.bucket, <manifest key>): the store
\* client is taken as this test takes it, a missing object giving a false
\* result (a client that raises instead also ends the download here)
ManifestMissing(st) == ~stat_object(st, ManifestKey)

\* stat_object of the manifest, and fget_object of it begun
DownloadStat ==
    /\ pc = "dl_stat"
    /\ LET lpath == PathJoin2(target_directory, MANIFEST_FNAME) IN
       IF ManifestMissing(store)
       THEN /\ DownloadFail(dl, "stat", "FileNotFoundError")
            /\ UNCHANGED <<fs, fg>>
       ELSE IF ~CanWrite(lpath, fs, dirs)
       THEN /\ DownloadFail(dl, "fget", "OSError")
            /\ UNCHANGED <<fs, fg>>
       ELSE FgetBegin(dl, ManifestKey, lpath, "dl_read", dirs)
    /\ UNCHANGED <<dirs, store, up, wm, rm, hist, cnt, call>>

\* read_manifest of the fetched manifest, and the listing begun
DownloadRead ==
    /\ pc = "dl_read"
    /\ LET lpath == PathJoin2(target_directory, MANIFEST_FNAME)
           lsubd == PathSplit(lpath)[1]
           r     == read_manifest(lsubd, fs, dirs)
       IN  IF r.err # ""
           THEN DownloadFail(dl, "read", r.err)
           ELSE /\ dl' = [dl EXCEPT !.mani = r.ret,
                                    !.listing = list_objects(pfx, store)]
                /\ pc' = "dl_loop"
    /\ UNCHANGED <<fs, dirs, store, up, fg, wm, rm, hist, cnt, call>>

\* <...?>/thing from ds/rev/<...?>/thing
SubpathOf(spath) == LStrip(StrRemove(spath, commonprefix(pfx, spath)), "/")

\* target_directory/<...?>/thing
LocalPathOf(ssubp) == PathJoinAll(target_directory, Split(ssubp, "/"))

\* the assertion guarding against creating outside of target_directory
InsideTarget(lpath) == commonprefix(target_directory, lpath) = target_directory

\* (mutant) the digest is not compared
Matches_SizeOnly(lpath, entry, F, D) ==
    ManifestOf(ReadFile(lpath, F, D))[1] = entry.size

\* (mutant) no local file is taken to match
Matches_Never(lpath, entry, F, D) == FALSE

\* (mutant) every local file is taken to match
Matches_Always(lpath, entry, F, D) == TRUE

\* (mutant) the comparison is inverted
Matches_Inverted(lpath, entry, F, D) ==
    LET m == ManifestOf(ReadFile(lpath, F, D))
    IN  ~(m[1] = entry.size /\ m[2] = entry.sha)

\* all((lsz == mani[ssubp]['size'], lsha == mani[ssubp]['sha']))
Matches(lpath, entry, F, D) ==
    LET m == ManifestOf(ReadFile(lpath, F, D))
    IN  m[1] = entry.size /\ m[2] = entry.sha

\* one iteration of the main loop up to the transfer: the object is skipped
\* (the manifest, or a verified local file) or its fget_object is begun
DownloadObject ==
    /\ pc = "dl_loop"
    /\ dl.idx <= Len(dl.listing)
    /\ LET spath == dl.listing[dl.idx]
           ssubp == SubpathOf(spath)
           lpath == LocalPathOf(ssubp)
           lsubd == PathSplit(lpath)[1]
           d     == [dl EXCEPT !.ssubp = ssubp, !.lpath = lpath]
           exists == PathExists(lpath, fs, dirs)
       IN  IF ssubp = MANIFEST_FNAME
           THEN /\ dl' = [dl EXCEPT !.idx = @ + 1]
                /\ UNCHANGED <<fs, dirs, fg, pc>>
           ELSE IF ~InsideTarget(lpath)
           THEN /\ DownloadFail(d, "guard", "AssertionError")
                /\ UNCHANGED <<fs, dirs, fg>>
           ELSE IF exists /\ ~CanRead(lpath, fs, dirs)
           THEN /\ DownloadFail(d, "check", "OSError")
                /\ UNCHANGED <<fs, dirs, fg>>
           ELSE IF exists /\ ssubp \notin DOMAIN dl.mani
           THEN /\ DownloadFail(d, "check", "KeyError")
                /\ UNCHANGED <<fs, dirs, fg>>
           ELSE IF exists /\ Matches(lpath, dl.mani[ssubp], fs, dirs)
           THEN /\ dl' = [d EXCEPT !.idx = @ + 1]
                /\ UNCHANGED <<fs, dirs, fg, pc>>
           ELSE IF ~MakedirsOk(lsubd, fs, dirs)
                   \/ ~CanWrite(lpath, fs, makedirs(lsubd, dirs))
           THEN /\ DownloadFail([d EXCEPT !.nerr = IF exists THEN @ + 1 ELSE @],
                                "fget", "OSError")
                /\ UNCHANGED <<fs, dirs, fg>>
           ELSE /\ dirs' = makedirs(lsubd, dirs)
                /\ FgetBegin([d EXCEPT !.nerr = IF exists THEN @ + 1 ELSE @,
                                       !.fetched = Append(@, spath)],
                             spath, lpath, "dl_verify", dirs')
    /\ UNCHANGED <<store, up, wm, rm, hist, cnt, call>>

\* (mutant) a transferred file without manifest entry is counted as an issue
DownloadVerify_CountsIssue ==
    /\ pc = "dl_verify"
    /\ dl' = [dl EXCEPT
                !.nerr = IF dl.ssubp \in DOMAIN dl.mani
                            /\ Matches(dl.lpath, dl.mani[dl.ssubp], fs, dirs)
                         THEN @ ELSE @ + 1,
                !.nfound = @ + 1,
                !.idx = @ + 1]
    /\ pc' = "dl_loop"
    /\ UNCHANGED <<fs, dirs, store, up, fg, wm, rm, hist, cnt, call>>

\* the transferred file is checked against its manifest entry
DownloadVerify ==
    /\ pc = "dl_verify"
    /\ IF dl.ssubp \notin DOMAIN dl.mani
       THEN DownloadFail(dl, "verify", "KeyError")
       ELSE /\ dl' = [dl EXCEPT
                        !.nerr = IF Matches(dl.lpath, dl.mani[dl.ssubp], fs, dirs)
                                 THEN @ ELSE @ + 1,
                        !.nfound = @ + 1,
                        !.idx = @ + 1]
            /\ pc' = "dl_loop"
    /\ UNCHANGED <<fs, dirs, store, up, fg, wm, rm, hist, cnt, call>>

\* the listing is exhausted: 'transfer complete with {} issues.'
DownloadFinish ==
    /\ pc = "dl_loop"
    /\ dl.idx > Len(dl.listing)
    /\ dl' = [dl EXCEPT !.result = "complete"]
    /\ hist' = [hist EXCEPT !.prevClean = (dl.nerr = 0)]
    /\ pc' = "done"
    /\ UNCHANGED <<fs, dirs, store, up, fg, wm, rm, cnt, call>>

\* the local files of the objects fetched so far
FetchedFiles(d) ==
    {Resolve(LocalPathOf(SubpathOf(d.fetched[i])), dirs).path :
        i \in 1..Len(d.fetched)}

\* the process is interrupted in the middle of a download: a data file
\* that fget_object was writing is left with the chunks written so far
DownloadInterrupt ==
    /\ pc \in {"dl_stat", "dl_read", "dl_loop", "dl_verify", "fget"}
    /\ dl' = NoDownload
    /\ fg' = NoFget
    /\ pc' = "idle"
    /\ LET mid == IF pc = "fget" /\ fg.spath # ManifestKey
                  THEN {Resolve(fg.lpath, dirs).path} ELSE {}
       IN  hist' = [hist EXCEPT !.midfetch = mid,
                                !.completed = FetchedFiles(dl) \ mid]
    /\ UNCHANGED <<fs, dirs, store, up, wm, rm, cnt, call>>

(***************************************************************************)
(* The user's own changes to local files between operations.               *)
(***************************************************************************)

\* a file of the source tree is added, removed or given another content
\* after its manifest was written (an earlier change only leads to another
\* of the initial trees)
SrcEdit ==
    /\ pc = "idle"
    /\ cnt.edit < MaxEdits
    /\ Publishing
    /\ PathExists(mani_fp, fs, dirs)
    /\ cnt' = [cnt EXCEPT !.edit = @ + 1]
    /\ \E f \in SrcFiles, v \in Contents \cup {Absent} :
          /\ v # (IF f \in DOMAIN fs THEN fs[f] ELSE Absent)
          /\ fs' = [g \in (IF v = Absent THEN DOMAIN fs \ {f}
                                         ELSE DOMAIN fs \cup {f}) |->
                      IF g = f THEN v ELSE fs[g]]
    /\ hist' = [hist EXCEPT !.walkcut = FALSE]
    /\ UNCHANGED <<dirs, store, pc, up, dl, fg, wm, rm, call>>

\* content with its i-th byte changed
FlipByte(content, i) ==
    [content EXCEPT ![i] = IF @ = "x" THEN "y" ELSE "x"]

\* one byte of one dataset file of a completely downloaded copy is changed
\* (a file is changed once: a second change could undo the first)
Corrupt ==
    /\ pc = "idle"
    /\ cnt.corrupt < MaxCorrupt
    /\ hist.prevClean
    /\ cnt' = [cnt EXCEPT !.corrupt = @ + 1]
    /\ \E f \in DOMAIN fs :
          /\ ~IsPrefixSeq(SrcDir, f)
          /\ f # Append(TgtDir, MANIFEST_FNAME)
          /\ f \notin hist.corrupted
          /\ \E i \in 1..Len(fs[f]) :
                fs' = [fs EXCEPT ![f] = FlipByte(@, i)]
          /\ hist' = [hist EXCEPT !.corrupted = @ \cup {f}]
    /\ UNCHANGED <<dirs, store, pc, up, dl, fg, wm, rm, call>>

Next ==
    \/ \E overwrite \in BOOLEAN : WriteManifest(overwrite)
    \/ Return
    \/ SrcEdit
    \/ UploadStart
    \/ UploadVerifyFile
    \/ UploadCreatePut
    \/ UploadCreateEntry
    \/ UploadManifest
    \/ UploadInterrupt
    \/ \E create_target \in BOOLEAN : DownloadStart(create_target)
    \/ DownloadStat
    \/ DownloadRead
    \/ FgetChunk
    \/ DownloadObject
    \/ DownloadVerify
    \/ DownloadFinish
    \/ DownloadInterrupt
    \/ Corrupt

Spec == Init /\ [][Next]_vars

(***************************************************************************)
(* The download against a revision somebody else put into the bucket: its  *)
(* keys are whatever the listing returns.                                  *)
(***************************************************************************)

\* the subpaths the data objects of such a revision may have
RemoteSubpaths ==
    {<<"a">>, <<"b", "/", "a">>, <<".", ".", "/", "e">>}

RECURSIVE EntriesOf(_, _)
\* a manifest text with an entry for every subpath of S with content t[..]
EntriesOf(S, t) ==
    IF S = {} THEN << >>
    ELSE LET subp == CHOOSE x \in S : \A y \in S \ {x} : KeyLess(x, y)
         IN  FormatEntry(Len(t[subp]), hexdigest(t[subp]), subp)
                 \o EntriesOf(S \ {subp}, t)

\* the subpaths of the objects t
Present(t) == {subp \in RemoteSubpaths : t[subp] # Absent}

\* the bucket holding the objects t and a manifest with the entries of the
\* subpaths E
BucketOf(t, E) ==
    [k \in {ObjectKey(subp) : subp \in Present(t)} \cup {ManifestKey} |->
        IF k = ManifestKey THEN EntriesOf(E, t)
        ELSE t[CHOOSE subp \in Present(t) : ObjectKey(subp) = k]]

\* the keys of another revision of the dataset, r1, the bucket may hold
SiblingKeys == {<<"d", "/", "r", "1", "/", "a">>}

InitRemote ==
    /\ fs = << >>
    /\ dirs = {<< >>}
    /\ \E t \in [RemoteSubpaths -> {c1, Absent}], S \in SUBSET SiblingKeys :
          \E E \in SUBSET Present(t) :
              store = [k \in DOMAIN BucketOf(t, E) \cup S |->
                          IF k \in S THEN c2 ELSE BucketOf(t, E)[k]]
    /\ pc = "idle"
    /\ up = NoUpload
    /\ dl = NoDownload
    /\ fg = NoFget
    /\ wm = NoWrite
    /\ rm = NoRead
    /\ hist = NoHist
    /\ cnt = [up |-> 0, dl |-> 0, corrupt |-> 0, edit |-> 0]
    /\ call = NoCall

NextRemote ==
    \/ \E create_target \in BOOLEAN : DownloadStart(create_target)
    \/ DownloadStat
    \/ DownloadRead
    \/ FgetChunk
    \/ DownloadObject
    \/ DownloadVerify
    \/ DownloadFinish
    \/ DownloadInterrupt
    \/ Return

SpecRemote == InitRemote /\ [][NextRemote]_vars

(***************************************************************************)
(* write_manifest and read_manifest on source directories of any content,  *)
(* with or without a manifest file of any content.                         *)
(***************************************************************************)

\* the files the directory may hold: a, b/a, 'a,b' and s/a
ManifestFiles ==
    {<<<<"s">>, <<"a">>>>,
     <<<<"s">>, <<"b">>, <<"a">>>>,
     <<<<"s">>, <<"a", ",", "b">>>>,
     <<<<"s">>, <<"s">>, <<"a">>>>}

\* the manifest files found there: none, one entry, one subpath on two
\* lines (with the same and with another size and digest)
ManifestFound ==
    {Absent,
     FormatEntry(1, hexdigest(c1), <<"a">>),
     FormatEntry(1, hexdigest(c1), <<"a">>)
         \o FormatEntry(1, hexdigest(c1), <<"a">>),
     FormatEntry(1, hexdigest(c1), <<"a">>)
         \o FormatEntry(3, hexdigest(c2), <<"b", "/", "a">>)
         \o FormatEntry(3, hexdigest(c2), <<"a">>)}

InitManifest ==
    /\ \E t \in [ManifestFiles -> {c1, Absent}], m \in ManifestFound :
          fs = TreeFrom(ManifestFiles \cup {NormPath(mani_fp)},
                        [f \in ManifestFiles \cup {NormPath(mani_fp)} |->
                            IF f \in ManifestFiles THEN t[f] ELSE m])
    /\ dirs = ParentsOf(ManifestFiles)
    /\ InitCommon

NextManifest ==
    \/ \E overwrite \in BOOLEAN : WriteManifest(overwrite)
    \/ ReadManifest
    \/ Return

SpecManifest == InitManifest /\ [][NextManifest]_vars


(***************************************************************************)
(* What the claims speak of, stated apart from the code's own path         *)
(* arithmetic.                                                             *)
(***************************************************************************)

RECURSIVE JoinSegs(_)
\* the segments joined with '/'
JoinSegs(segs) ==
    IF segs = << >> THEN << >>
    ELSE IF Len(segs) = 1 THEN Head(segs)
    ELSE Head(segs) \o <<"/">> \o JoinSegs(Tail(segs))

\* the posix path of the file fp relative to the directory top
RelSubpath(top, fp) ==
    LET n == NormPath(fp)
    IN  JoinSegs(SubSeq(n, Len(NormPath(top)) + 1, Len(n)))

\* the key name/revision/<subpath>
KeyOf(subp) == dataset_name \o <<"/">> \o revision \o <<"/">> \o subp

\* the positions of the walk that hold a file other than the manifest
DataPositions(w) == {j \in 1..Len(w) : w[j] # mani_fp}

\* the file fp of the source tree agrees with the entry the manifest holds
Agrees(mani_dat, fp) ==
    LET subp == RelSubpath(source_directory, fp) IN
    /\ subp \in DOMAIN mani_dat
    /\ mani_dat[subp].size = Len(ReadFile(fp, fs, dirs))
    /\ mani_dat[subp].sha = hexdigest(ReadFile(fp, fs, dirs))

UploadRuns == up.mode # "none"

UploadEnded == pc = "done" /\ up.mode # "none"

DownloadEnded == pc = "done" /\ dl.result # ""

DownloadCompleted == pc = "done" /\ dl.result = "complete"

C2_IncompleteNotFound ==
    /\ hist.partial => ManifestKey \notin DOMAIN store
    /\ dl.partial => pc \notin {"dl_read", "dl_loop", "dl_verify", "fget"}
    /\ (DownloadEnded /\ dl.partial /\ dl.at # "target") =>
          /\ dl.at = "stat"
          /\ dl.result = "FileNotFoundError"
          /\ dl.fetched = << >>
          /\ dl.written = {}
          /\ FilesUnder(target_directory, fs, dirs) = {}

\* the upload was interrupted after both data files were put, and the
\* download that followed ended at the stat
C2_Witness ==
    /\ DownloadEnded
    /\ dl.partial
    /\ dl.at = "stat"
    /\ Cardinality(DOMAIN store) = 2


(***************************************************************************)
(* The remote revision as a reader of the store sees it.                   *)
(***************************************************************************)

\* the manifest object parsed
RemoteManifest == ReadEntries(FileLines(store[ManifestKey]), << >>)

\* the keys of the revision's data objects
RemoteDataKeys ==
    {k \in DOMAIN store :
        /\ Len(k) > Len(KeyOf(<< >>))
        /\ SubSeq(k, 1, Len(KeyOf(<< >>))) = KeyOf(<< >>)
        /\ k # ManifestKey}

\* the subpath of a data object's key
RemoteSubpath(k) == SubSeq(k, Len(KeyOf(<< >>)) + 1, Len(k))

\* the revision has its manifest and every data object of it is as its
\* manifest entry says
RemoteConsistent ==
    /\ ManifestKey \in DOMAIN store
    /\ RemoteManifest.err = ""
    /\ \A k \in RemoteDataKeys :
          /\ RemoteSubpath(k) \in DOMAIN RemoteManifest.ret
          /\ RemoteManifest.ret[RemoteSubpath(k)].size = Len(store[k])
          /\ RemoteManifest.ret[RemoteSubpath(k)].sha = hexdigest(store[k])

\* the local file of the target directory for a subpath
TargetFile(subp) == target_directory \o <<"/">> \o subp

\* the local file for subp is there and is as the entry says
LocalAgrees(subp, entry) ==
    /\ CanRead(TargetFile(subp), fs, dirs)
    /\ Len(ReadFile(TargetFile(subp), fs, dirs)) = entry.size
    /\ hexdigest(ReadFile(TargetFile(subp), fs, dirs)) = entry.sha

(***************************************************************************)
(* C4.  Idempotent download: against a revision whose objects all match    *)
(* its manifest, a download into an empty target directory completes with  *)
(* zero issues, and a download that follows a clean one, with neither the  *)
(* remote nor the local files changed in between, fetches no dataset       *)
(* object and completes with zero issues as well.                          *)
(***************************************************************************)
C4_IdempotentDownload ==
    (DownloadCompleted /\ RemoteConsistent) =>
        /\ dl.fresh => dl.nerr = 0
        /\ (dl.afterClean /\ dl.corrupted = {}) =>
              /\ dl.fetched = << >>
              /\ dl.nerr = 0

\* the second of two downloads of a revision with two data objects is over
C4_Witness ==
    /\ DownloadCompleted
    /\ RemoteConsistent
    /\ dl.afterClean
    /\ dl.corrupted = {}
    /\ Cardinality(RemoteDataKeys) = 2
    /\ \A k \in RemoteDataKeys :
          LocalAgrees(RemoteSubpath(k), RemoteManifest.ret[RemoteSubpath(k)])

(***************************************************************************)
(* C5.  Corruption detection: when, after a clean download, exactly one    *)
(* downloaded file is changed locally and the download is run again        *)
(* against the unchanged remote, exactly that file is fetched again, the   *)
(* run counts one issue, and the file matches its manifest entry again.    *)
(***************************************************************************)
C5_CorruptionDetected ==
    (DownloadCompleted /\ RemoteConsistent /\ dl.afterClean
        /\ Cardinality(dl.corrupted) = 1) =>
        \A f \in dl.corrupted :
            \E k \in RemoteDataKeys :
                /\ NormPath(TargetFile(RemoteSubpath(k))) = f
                /\ dl.fetched = <<k>>
                /\ dl.nerr = 1
                /\ LocalAgrees(RemoteSubpath(k),
                               RemoteManifest.ret[RemoteSubpath(k)])

\* the download after the change of one of two downloaded files is over
C5_Witness ==
    /\ DownloadCompleted
    /\ RemoteConsistent
    /\ dl.afterClean
    /\ Cardinality(dl.corrupted) = 1
    /\ Cardinality(RemoteDataKeys) = 2
    /\ dl.nerr = 1

(***************************************************************************)
(* C6.  A download that completes with zero issues leaves every subpath    *)
(* of the fetched manifest as a local file under target_directory whose    *)
(* size and digest are those of the manifest entry.                        *)
(***************************************************************************)
C6_ZeroIssuesCleanTransfer ==
    (DownloadCompleted /\ dl.nerr = 0) =>
        \A subp \in DOMAIN dl.mani : LocalAgrees(subp, dl.mani[subp])

(***************************************************************************)
(* C7.  Verify-mode upload is fail-fast: it ends with FileNotFoundError at *)
(* the first file of the walk without manifest entry, with ValueError at   *)
(* the first file whose size or digest differs from its entry; the files   *)
(* put are exactly the files before that one, no later file is processed   *)
(* and the manifest object is not written.  It sends the manifest only     *)
(* when every file of the walk passes.                                     *)
(***************************************************************************)

\* the file at position j of the walk does not pass
BadAt(j) == up.walk[j] # mani_fp /\ ~Agrees(up.mani_dat, up.walk[j])

\* the exception the file at position j calls for
KindAt(j) ==
    IF RelSubpath(source_directory, up.walk[j]) \notin DOMAIN up.mani_dat
    THEN "FileNotFoundError" ELSE "ValueError"

RECURSIVE KeysBefore(_, _)
\* the keys of the data files of the walk w before position n, in order
KeysBefore(w, n) ==
    IF n <= 1 THEN << >>
    ELSE IF w[n - 1] = mani_fp THEN KeysBefore(w, n - 1)
    ELSE Append(KeysBefore(w, n - 1),
                KeyOf(RelSubpath(source_directory, w[n - 1])))

C3_NoPathEscape ==
    /\ \A p \in dl.written : IsPrefixSeq(TgtDir, p) /\ p # TgtDir
    /\ \A f \in DOMAIN fs : IsPrefixSeq(TgtDir, f)
    /\ \A d \in dirs : d = << >> \/ IsPrefixSeq(TgtDir, d)

(***************************************************************************)
(* The manifest file of the source directory as it stands.                 *)
(***************************************************************************)

\* the path string of a file
PathStr(f) == <<"/">> \o JoinSegs(f)

\* the files of the source directory other than the manifest
SourceDataFiles ==
    FilesUnder(source_directory, fs, dirs) \ {NormPath(mani_fp)}

\* the lines of the manifest file
SourceManifestLines ==
    IF CanRead(mani_fp, fs, dirs)
    THEN FileLines(ReadFile(mani_fp, fs, dirs)) ELSE << >>

\* the line write_manifest writes for the file f
LineOf(f) ==
    FormatEntry(Len(fs[f]), hexdigest(fs[f]),
                _normalize_path(source_directory, PathStr(f)))

\* the manifest file is one write_manifest writes for the files as they are
ManifestWritten ==
    /\ CanRead(mani_fp, fs, dirs)
    /\ Len(SourceManifestLines) = Cardinality(SourceDataFiles)
    /\ {SourceManifestLines[i] : i \in 1..Len(SourceManifestLines)}
          = {LineOf(f) : f \in SourceDataFiles}

\* the text between the last two double quotes of a line
LastQuoted(line) ==
    LET qs == {i \in 1..Len(line) : line[i] = Quote}
        hi == CHOOSE i \in qs : \A j \in qs : j <= i
        lo == CHOOSE i \in qs \ {hi} : \A j \in qs \ {hi} : j <= i
    IN  SubSeq(line, lo + 1, hi - 1)

\* the subpaths of the lines of the manifest file
SubpathsListed ==
    {LastQuoted(SourceManifestLines[i]) : i \in 1..Len(SourceManifestLines)}

\* some subpath is on more than one line
SubpathRepeats ==
    \E i, j \in 1..Len(SourceManifestLines) :
        /\ i # j
        /\ LastQuoted(SourceManifestLines[i])
              = LastQuoted(SourceManifestLines[j])

ReadEnded == pc = "done" /\ rm.called

WriteEnded == pc = "done" /\ wm.result # ""

(***************************************************************************)
(* C8.  Manifest round-trip: read_manifest of a manifest that              *)
(* write_manifest wrote for the files of the directory succeeds and        *)
(* returns exactly one key per file other than the manifest, the file's    *)
(* posix subpath, with the size and the digest of the file.                *)
(***************************************************************************)
C8_ManifestRoundTrip ==
    (ReadEnded /\ ManifestWritten) =>
        /\ rm.err = ""
        /\ DOMAIN rm.ret
              = {RelSubpath(source_directory, PathStr(f)) : f \in SourceDataFiles}
        /\ \A f \in SourceDataFiles :
              LET subp == RelSubpath(source_directory, PathStr(f)) IN
              subp \in DOMAIN rm.ret =>
                  /\ rm.ret[subp].size = Len(fs[f])
                  /\ rm.ret[subp].sha = hexdigest(fs[f])

(***************************************************************************)
(* C9.  read_manifest raises FileNotFoundError when the manifest file is   *)
(* absent and fails when a subpath is on more than one line; when it       *)
(* returns, the keys of the result are the subpaths of the lines, one line *)
(* for each, so the result holds one entry for a subpath.                  *)
(***************************************************************************)
C9_ReadManifestFailures ==
    ReadEnded =>
        /\ ~CanRead(mani_fp, fs, dirs) => rm.err = "FileNotFoundError"
        /\ SubpathRepeats => rm.err # ""
        /\ rm.err = "" =>
              /\ CanRead(mani_fp, fs, dirs)
              /\ DOMAIN rm.ret = SubpathsListed
              /\ Cardinality(DOMAIN rm.ret) = Len(SourceManifestLines)

\* read_manifest failed on a manifest with one subpath on two lines
C9_Witness ==
    /\ ReadEnded
    /\ SubpathRepeats
    /\ rm.err = "AssertionError"

(***************************************************************************)
(* C10.  write_manifest raises FileExistsError exactly when a manifest     *)
(* file exists and overwrite was not asked for, and then leaves the file   *)
(* as it was; with overwrite it replaces an existing manifest by the one   *)
(* of the files as they are.                                               *)
(***************************************************************************)
C10_WriteManifestExists ==
    WriteEnded =>
        /\ wm.result = "FileExistsError"
              <=> (wm.before # Absent /\ ~wm.overwrite)
        /\ wm.result = "FileExistsError" =>
              FileOrAbsent(mani_fp, fs, dirs) = wm.before
        /\ wm.result # "FileExistsError" =>
              wm.result = "ok" /\ ManifestWritten

\* write_manifest without overwrite failed on a directory with a manifest
\* that is not the one of its files
C10_Witness ==
    /\ WriteEnded
    /\ wm.result = "FileExistsError"
    /\ wm.before # Absent
    /\ ~ManifestWritten
    /\ SourceDataFiles # {}

(***************************************************************************)
(* datasets() and revisions(dataset): generators over the groupings the    *)
(* store's listing returns.                                                *)
(***************************************************************************)

\* the value of an argument that is not given
None == <<"None">>

\* the position of the first '/' of s, 0 when it has none
FirstSep(s) ==
    IF \E i \in 1..Len(s) : s[i] = "/"
    THEN CHOOSE i \in 1..Len(s) :
            s[i] = "/" /\ \A j \in 1..(i - 1) : s[j] # "/"
    ELSE 0

\* the name under which the key k shows in a listing below prefix that is
\* not recursive: the key itself, or the grouping (with its '/') it is in
LevelName(prefix, k) ==
    LET rest == SubSeq(k, Len(prefix) + 1, Len(k))
        i    == FirstSep(rest)
    IN  IF i = 0 THEN k ELSE prefix \o SubSeq(rest, 1, i)

\* client.list_objects(bucket, prefix=prefix): objects and groupings, each
\* with its object_name and is_dir
ListLevel(st, prefix) ==
    LET names == SortKeys({LevelName(prefix, k) :
                              k \in {x \in DOMAIN st : IsPrefixSeq(prefix, x)}})
    IN  [i \in 1..Len(names) |->
            [object_name |-> names[i],
             is_dir      |-> names[i][Len(names[i])] = "/"]]

\* the subsequence of the entries that are groupings
RECURSIVE DirsOf(_)
DirsOf(entries) ==
    IF entries = << >> THEN << >>
    ELSE IF Head(entries).is_dir
         THEN <<Head(entries).object_name>> \o DirsOf(Tail(entries))
         ELSE DirsOf(Tail(entries))

\* what datasets() yields, in order
DatasetsOf(st) ==
    LET ds == DirsOf(ListLevel(st, << >>))
    IN  [i \in 1..Len(ds) |-> RStrip(ds[i], "/")]

\* what _revisions(dataset) yields, in order
RevisionsOf(st, dataset) ==
    LET ds == DirsOf(ListLevel(st, dataset \o <<"/">>))
    IN  [i \in 1..Len(ds) |-> Split(RStrip(ds[i], "/"), "/")]

RECURSIVE RevisionItems(_, _)
\* the loops of revisions() over the datasets left: each item is the value
\* of i and the tuple yielded
RevisionItems(st, datasets) ==
    IF datasets = << >> THEN << >>
    ELSE LET rs == RevisionsOf(st, Head(datasets))
         IN  [i \in 1..Len(rs) |-> [i |-> i, r |-> rs[i]]]
                 \o RevisionItems(st, Tail(datasets))

\* (mutant) the test without the dataset
NotFoundDue_NoDataset(dataset, nfound) == nfound = 0

\* if dataset and not nfound
NotFoundDue(dataset, nfound) ==
    dataset # None /\ dataset # << >> /\ nfound = 0

\* the dataset names a caller asks for
DatasetArgs == {None, <<"d">>, <<"e">>, <<"m">>}

\* datasets() is called: nothing runs before the first next()
DatasetsCall ==
    /\ pc = "idle"
    /\ call' = [op |-> "datasets", dataset |-> None,
                items |-> [i \in 1..Len(DatasetsOf(store)) |->
                              [i |-> i, r |-> DatasetsOf(store)[i]]],
                out |-> << >>, nfound |-> 0, result |-> "running"]
    /\ pc' = "catalog"
    /\ UNCHANGED <<fs, dirs, store, up, dl, fg, wm, rm, hist, cnt>>

\* revisions(dataset) is called
RevisionsCall ==
    /\ pc = "idle"
    /\ \E dataset \in DatasetArgs :
          call' = [op |-> "revisions", dataset |-> dataset,
                   items |-> RevisionItems(
                                store,
                                IF dataset # None /\ dataset # << >>
                                THEN <<dataset>> ELSE DatasetsOf(store)),
                   out |-> << >>, nfound |-> 0, result |-> "running"]
    /\ pc' = "catalog"
    /\ UNCHANGED <<fs, dirs, store, up, dl, fg, wm, rm, hist, cnt>>

\* next() on the generator: the next value is yielded, or the generator
\* ends (revisions() raising when it was given a dataset and found nothing)
CatalogNext ==
    /\ pc = "catalog"
    /\ IF call.items # << >>
       THEN /\ call' = [call EXCEPT
                          !.items = Tail(@),
                          !.out = Append(@, Head(call.items).r),
                          !.nfound = IF call.op = "revisions"
                                     THEN Head(call.items).i ELSE @]
            /\ pc' = "catalog"
       ELSE /\ call' = [call EXCEPT
                          !.result =
                              IF call.op = "revisions"
                                 /\ NotFoundDue(call.dataset, call.nfound)
                              THEN "FileNotFoundError" ELSE "StopIteration"]
            /\ pc' = "done"
    /\ UNCHANGED <<fs, dirs, store, up, dl, fg, wm, rm, hist, cnt>>

\* the keys a bucket may hold: two datasets with revisions, an object right
\* below a dataset and an object at the top
CatalogKeys ==
    {<<"d", "/", "r", "/", "a">>,
     <<"d", "/", "r", "1", "/", "a">>,
     <<"d", "/", "x">>,
     <<"e", "/", "r", "/", "a">>,
     <<"e", "/", "r", "/", "b", "/", "a">>,
     <<"t", "o", "p">>}

InitCatalog ==
    /\ fs = << >>
    /\ dirs = {<< >>}
    /\ \E S \in SUBSET CatalogKeys : store = [k \in S |-> c1]
    /\ pc = "idle"
    /\ up = NoUpload
    /\ dl = NoDownload
    /\ fg = NoFget
    /\ wm = NoWrite
    /\ rm = NoRead
    /\ hist = NoHist
    /\ cnt = [up |-> 0, dl |-> 0, corrupt |-> 0, edit |-> 0]
    /\ call = NoCall

NextCatalog ==
    \/ DatasetsCall
    \/ RevisionsCall
    \/ CatalogNext
    \/ Return

SpecCatalog == InitCatalog /\ [][NextCatalog]_vars

\* the segments of a key
KeySegments(k) == Split(k, "/")

\* the groupings at the top of the store
TopGroupings ==
    {KeySegments(k)[1] : k \in {x \in DOMAIN store : Len(KeySegments(x)) >= 2}}

\* the pairs (d, r) of the groupings d/r/
GroupingPairs(d) ==
    {<<d, KeySegments(k)[2]>> :
        k \in {x \in DOMAIN store :
                  Len(KeySegments(x)) >= 3 /\ KeySegments(x)[1] = d}}

\* the values the generator has yielded
Yielded == {call.out[i] : i \in 1..Len(call.out)}

CatalogRuns == call.op \in {"datasets", "revisions"}

CatalogEnded == CatalogRuns /\ pc = "done"

(***************************************************************************)
(* C11.  Catalog: datasets() yields exactly the names of the groupings at  *)
(* the top, without their '/'; revisions(d) yields exactly the pairs       *)
(* (d, r) of the groupings d/r/ and raises FileNotFoundError, at the end   *)
(* of the listing, when there is none; revisions() yields the pairs of     *)
(* every dataset and does not raise.                                       *)
(***************************************************************************)
C11_Catalog ==
    CatalogRuns =>
        /\ Len(call.out) = Cardinality(Yielded)
        /\ call.op = "datasets" =>
              /\ Yielded \subseteq TopGroupings
              /\ CatalogEnded =>
                    call.result = "StopIteration" /\ Yielded = TopGroupings
        /\ (call.op = "revisions" /\ call.dataset # None) =>
              /\ Yielded \subseteq GroupingPairs(call.dataset)
              /\ CatalogEnded =>
                    /\ Yielded = GroupingPairs(call.dataset)
                    /\ call.items = << >>
                    /\ call.result = IF GroupingPairs(call.dataset) = {}
                                     THEN "FileNotFoundError"
                                     ELSE "StopIteration"
        /\ (call.op = "revisions" /\ call.dataset = None) =>
              /\ Yielded \subseteq UNION {GroupingPairs(d) : d \in TopGroupings}
              /\ CatalogEnded =>
                    /\ call.result = "StopIteration"
                    /\ Yielded = UNION {GroupingPairs(d) : d \in TopGroupings}

\* revisions('m') raised on a store that holds revisions of other datasets
C11_Witness ==
    /\ CatalogEnded
    /\ call.op = "revisions"
    /\ call.dataset = <<"m">>
    /\ call.result = "FileNotFoundError"
    /\ Cardinality(UNION {GroupingPairs(d) : d \in TopGroupings}) = 3

(***************************************************************************)
(* C12.  A download of (name, revision) fetches only objects whose key     *)
(* lies under name/revision/ and writes nothing of another revision or     *)
(* dataset into the target directory.                                      *)
(***************************************************************************)
C12_OnlyOwnRevision ==
    /\ \A i \in 1..Len(dl.fetched) : IsPrefixSeq(KeyOf(<< >>), dl.fetched[i])
    /\ \A f \in FilesUnder(target_directory, fs, dirs) :
          \/ f = NormPath(TargetFile(MANIFEST_FNAME))
          \/ \E k \in RemoteDataKeys : f = NormPath(TargetFile(RemoteSubpath(k)))

(***************************************************************************)
(* C13.  Download is best-effort for per-object integrity.  A local file   *)
(* that is there and does not match its manifest entry is counted as one   *)
(* issue and fetched again; a fetched file that does not match its entry   *)
(* is counted as one issue; in both cases the download goes on with the    *)
(* next object of the listing.  Nothing else changes the count, which      *)
(* starts at zero, and the download completes only when the listing is     *)
(* exhausted, reporting that count.                                        *)
(***************************************************************************)

\* the object the loop of the download is at
CurrentObject == dl.listing[dl.idx]

\* the loop is at a data object that has its manifest entry
AtDataObject ==
    /\ pc = "dl_loop"
    /\ dl.idx <= Len(dl.listing)
    /\ CurrentObject \in RemoteDataKeys
    /\ RemoteSubpath(CurrentObject) \in DOMAIN dl.mani

\* the local file of the object the loop is at is there
LocalThere == CanRead(TargetFile(RemoteSubpath(CurrentObject)), fs, dirs)

\* ... and is as the manifest entry says
LocalGood ==
    LocalAgrees(RemoteSubpath(CurrentObject),
                dl.mani[RemoteSubpath(CurrentObject)])

C13_Step ==
    /\ (pc = "idle" /\ pc' \in {"dl_stat", "dl_read", "dl_loop"}) =>
          dl'.nerr = 0
    /\ (pc \in {"dl_stat", "dl_read", "fget"} /\ pc' # "idle") =>
          dl'.nerr = dl.nerr
    /\ (AtDataObject /\ LocalThere /\ ~LocalGood /\ pc' # "idle") =>
          /\ dl'.nerr = dl.nerr + 1
          /\ dl'.fetched = Append(dl.fetched, CurrentObject)
          /\ pc' \in {"fget", "dl_verify"}
    /\ (AtDataObject /\ LocalThere /\ LocalGood /\ pc' # "idle") =>
          /\ dl'.nerr = dl.nerr
          /\ dl'.fetched = dl.fetched
          /\ dl'.idx = dl.idx + 1
          /\ pc' = "dl_loop"
    /\ (AtDataObject /\ ~LocalThere /\ pc' # "idle") =>
          /\ dl'.nerr = dl.nerr
          /\ dl'.fetched = Append(dl.fetched, CurrentObject)
          /\ pc' \in {"fget", "dl_verify"}
    /\ (pc = "dl_verify" /\ pc' # "idle" /\ CurrentObject \in RemoteDataKeys
           /\ RemoteSubpath(CurrentObject) \in DOMAIN dl.mani) =>
          /\ dl'.nerr = dl.nerr + (IF LocalGood THEN 0 ELSE 1)
          /\ dl'.idx = dl.idx + 1
          /\ pc' = "dl_loop"
    /\ (pc = "dl_loop" /\ pc' = "done" /\ dl'.result = "complete") =>
          /\ dl.idx > Len(dl.listing)
          /\ dl'.nerr = dl.nerr

C13_BestEffort == [][C13_Step]_vars

\* a download completed with two issues counted on one object: its local
\* file did not match, and the file fetched in its place did not either
C13_Witness ==
    /\ DownloadCompleted
    /\ dl.nerr = 2
    /\ Len(dl.fetched) = 1
    /\ Len(dl.listing) = 3

(***************************************************************************)
(* C14.  Resume after interruption: when a download was interrupted while  *)
(* a data file was being fetched, the next download of the unchanged       *)
(* revision, whose objects match its manifest, that completes has counted  *)
(* the partial file as an issue and fetched it again, has fetched none of  *)
(* the files the interrupted run had completed, and leaves every listed    *)
(* file as its manifest entry says.                                        *)
(***************************************************************************)

\* the keys of the data objects whose local file is one of the files S
KeysOfFiles(S) ==
    {k \in RemoteDataKeys : NormPath(TargetFile(RemoteSubpath(k))) \in S}

\* the objects fetched by the download
FetchedKeys == {dl.fetched[i] : i \in 1..Len(dl.fetched)}

C14_ResumeAfterInterrupt ==
    (DownloadCompleted /\ RemoteConsistent /\ dl.midfetch # {}) =>
        /\ KeysOfFiles(dl.midfetch) # {}
        /\ KeysOfFiles(dl.midfetch) \subseteq FetchedKeys
        /\ dl.nerr >= 1
        /\ KeysOfFiles(dl.completed) \cap FetchedKeys = {}
        /\ Len(dl.fetched) = Cardinality(FetchedKeys)
        /\ \A k \in RemoteDataKeys :
              LocalAgrees(RemoteSubpath(k), RemoteManifest.ret[RemoteSubpath(k)])

\* the download after an interruption in the second of two files is over:
\* the first file was skipped, the second fetched again
C14_Witness ==
    /\ DownloadCompleted
    /\ RemoteConsistent
    /\ dl.midfetch # {}
    /\ dl.completed # {}
    /\ dl.nerr = 1
    /\ Len(dl.fetched) = 1

(***************************************************************************)
(* Publishing a source tree of any shape and fetching it back: uploads     *)
(* and downloads that run to their end, on a tree that is left alone.      *)
(***************************************************************************)

\* the files the tree may hold: a, b/a and s/a
TreeFiles ==
    {<<<<"s">>, <<"a">>>>,
     <<<<"s">>, <<"b">>, <<"a">>>>,
     <<<<"s">>, <<"s">>, <<"a">>>>}

InitTree ==
    /\ \E t \in [TreeFiles -> {c1, c2, Absent}] : fs = TreeFrom(TreeFiles, t)
    /\ dirs = ParentsOf(TreeFiles)
    /\ InitCommon

NextTree ==
    \/ Return
    \/ UploadStart
    \/ UploadVerifyFile
    \/ UploadCreatePut
    \/ UploadCreateEntry
    \/ UploadManifest
    \/ \E create_target \in BOOLEAN : DownloadStart(create_target)
    \/ DownloadStat
    \/ DownloadRead
    \/ FgetChunk
    \/ DownloadObject
    \/ DownloadVerify
    \/ DownloadFinish

SpecTree == InitTree /\ [][NextTree]_vars

(***************************************************************************)
(* C15.  Create-mode upload: every entry in the manifest being built is    *)
(* the entry of a file that has been put; when the upload completes the    *)
(* manifest on disk has exactly one entry (size, digest, subpath) for      *)
(* every file of the tree other than the manifest and none for the         *)
(* manifest, and every such file was put exactly once, at                  *)
(* name/revision/<subpath>.                                                *)
(***************************************************************************)

\* the entry of the file f of the source tree
EntryOf(f) ==
    FormatEntry(Len(fs[f]), hexdigest(fs[f]),
                RelSubpath(source_directory, PathStr(f)))

\* the key of the file f of the source tree
SourceKey(f) == KeyOf(RelSubpath(source_directory, PathStr(f)))

\* the places of the key k in the puts of the upload
PutsOf(k) == {i \in 1..Len(up.log) : up.log[i] = k}

C15_CreateModeManifest ==
    up.mode = "create" =>
        /\ \A i \in 1..Len(FileLines(up.buf)) :
              \E f \in SourceDataFiles :
                  /\ FileLines(up.buf)[i] = EntryOf(f)
                  /\ PutsOf(SourceKey(f)) # {}
        /\ (UploadEnded /\ up.result = "ok") =>
              /\ Len(SourceManifestLines) = Cardinality(SourceDataFiles)
              /\ \A f \in SourceDataFiles :
                    /\ \E i \in 1..Len(SourceManifestLines) :
                          SourceManifestLines[i] = EntryOf(f)
                    /\ Cardinality(PutsOf(SourceKey(f))) = 1
                    /\ store[SourceKey(f)] = fs[f]
              /\ Len(up.log) = Cardinality(SourceDataFiles) + 1

(***************************************************************************)
(* C20.  End-to-end round trip: once a create-mode upload of the source    *)
(* tree into the empty revision has completed, a download of the revision  *)
(* into an empty target directory completes with zero issues and leaves    *)
(* under the target directory the relative paths of the source tree, with  *)
(* the same contents, and the manifest file, and nothing else.             *)
(***************************************************************************)

\* the relative path (segments) of a file under the directory top
RelSegments(top, f) == SubSeq(f, Len(NormPath(top)) + 1, Len(f))

\* the files under top, by relative path
TreeUnder(top) ==
    [r \in {RelSegments(top, f) : f \in FilesUnder(top, fs, dirs)} |->
        fs[NormPath(top) \o r]]

\* a download into an empty target directory, which was there or was made,
\* has ended
FreshDownloadEnded == DownloadEnded /\ dl.fresh /\ dl.at # "target"

C20_RoundTrip ==
    (FreshDownloadEnded /\ cnt.up >= 1) =>
        /\ dl.result = "complete"
        /\ dl.nerr = 0
        /\ TreeUnder(target_directory) = TreeUnder(source_directory)

(***************************************************************************)
(* fget_object on objects of every size up to MaxSize.                     *)
(***************************************************************************)

\* the contents of the sizes 0..MaxSize
SizedContents == UNION {[1..n -> {"x", "y"}] : n \in 0..MaxSize}

InitFetch ==
    /\ fs = << >>
    /\ \E D \in {{<< >>}, {<< >>, TgtDir}} : dirs = D
    /\ \E c \in SizedContents : store = [k \in {<<"o">>} |-> c]
    /\ pc = "idle"
    /\ up = NoUpload
    /\ dl = NoDownload
    /\ fg = NoFget
    /\ wm = NoWrite
    /\ rm = NoRead
    /\ hist = NoHist
    /\ cnt = [up |-> 0, dl |-> 0, corrupt |-> 0, edit |-> 0]
    /\ call = NoCall

NextFetch ==
    \/ FgetCall
    \/ FgetChunk
    \/ FgetFail
    \/ Return

SpecFetch == InitFetch /\ [][NextFetch]_vars

(***************************************************************************)
(* C16.  Chunked fetch: for an object of size S the reads of fget_object   *)
(* are the ranges of length chunksz (the last one shorter when chunksz     *)
(* does not divide S) at the offsets 0, chunksz, 2 chunksz, ..., issued in *)
(* that order, ceil(S / chunksz) of them when the call returns; the file   *)
(* holds the chunks read so far, in order, and the whole object when the   *)
(* call returns; for S = 0 no read is issued and the file is created       *)
(* empty; after a read that fails the call is over with no further read.   *)
(***************************************************************************)

FetchRuns == fg.spath # << >>

\* the size of the object being fetched
FetchSize == Len(store[fg.spath])

\* ceil(S / chunksz)
ChunksOf(S) == (S + chunksz - 1) \div chunksz

Smaller(a, b) == IF a < b THEN a ELSE b

\* the bytes the reads issued so far cover
BytesRead == Smaller(Len(fg.reads) * chunksz, FetchSize)

FetchReturned == FetchRuns /\ pc = "done" /\ dl.result = ""

FetchFailed == FetchRuns /\ pc = "done" /\ dl.result = "S3Error"

C16_ChunkedFetch ==
    FetchRuns =>
        /\ Len(fg.reads) <= ChunksOf(FetchSize)
        /\ \A k \in 1..Len(fg.reads) :
              /\ fg.reads[k][1] = (k - 1) * chunksz
              /\ fg.reads[k][2] = Smaller(chunksz, FetchSize - (k - 1) * chunksz)
              /\ fg.reads[k][2] > 0
        /\ CanRead(fg.lpath, fs, dirs)
        /\ ReadFile(fg.lpath, fs, dirs) = SubSeq(store[fg.spath], 1, BytesRead)
        /\ FetchReturned =>
              /\ Len(fg.reads) = ChunksOf(FetchSize)
              /\ ReadFile(fg.lpath, fs, dirs) = store[fg.spath]
        /\ FetchFailed => Len(fg.reads) < ChunksOf(FetchSize)
        /\ pc = "fget" => Len(fg.reads) < ChunksOf(FetchSize)

\* the fetch of an object of five units returned after three reads
C16_Witness ==
    /\ FetchReturned
    /\ FetchSize = 5
    /\ Len(fg.reads) = 3
    /\ fg.reads[3] = <<4, 1>>

(***************************************************************************)
(* _normalize_path and _denormalize_path on the files under a root.        *)
(***************************************************************************)

CodecRoots == {<<"/", "s">>, <<"/", "s", "b">>, <<"/", "s", "/", "b">>}

CodecNames == {<<"s">>, <<"b">>, <<"a">>, <<"s", "b">>}

RECURSIVE RelPaths(_)
\* the relative paths of at most n names
RelPaths(n) ==
    IF n = 1 THEN CodecNames
    ELSE RelPaths(n - 1) \cup
         {p \o <<sep>> \o q : p \in RelPaths(n - 1), q \in CodecNames}

\* self._normalize_path(root, path) for a file path under root
NormalizeCall ==
    /\ pc = "idle"
    /\ \E root \in CodecRoots, rel \in RelPaths(MaxDepth) :
          LET path == root \o <<sep>> \o rel IN
          call' = [op |-> "normalize", root |-> root, path |-> path,
                   rel |-> rel, result |-> _normalize_path(root, path)]
    /\ pc' = "done"
    /\ UNCHANGED <<fs, dirs, store, up, dl, fg, wm, rm, hist, cnt>>

\* self._denormalize_path(root, subp) for the subpath just normalized
DenormalizeCall ==
    /\ pc = "done"
    /\ call.op = "normalize"
    /\ call' = [call EXCEPT !.op = "denormalize",
                            !.result = _denormalize_path(call.root, call.result)]
    /\ UNCHANGED <<fs, dirs, store, pc, up, dl, fg, wm, rm, hist, cnt>>

InitCodec ==
    /\ fs = << >>
    /\ dirs = {<< >>}
    /\ store = << >>
    /\ pc = "idle"
    /\ up = NoUpload
    /\ dl = NoDownload
    /\ fg = NoFget
    /\ wm = NoWrite
    /\ rm = NoRead
    /\ hist = NoHist
    /\ cnt = [up |-> 0, dl |-> 0, corrupt |-> 0, edit |-> 0]
    /\ call = NoCall

NextCodec ==
    \/ NormalizeCall
    \/ DenormalizeCall
    \/ Return

SpecCodec == InitCodec /\ [][NextCodec]_vars

(***************************************************************************)
(* C17.  Path round trip: for every root and every file path under it,     *)
(* _normalize_path(root, path) is the path relative to root, without a     *)
(* leading separator and with "/" between the names, and                   *)
(* _denormalize_path(root, _normalize_path(root, path)) is the path again; *)
(* also when the text of root occurs again inside the path, or is a        *)
(* character-wise prefix of a directory name below it.                     *)
(***************************************************************************)
C17_PathRoundTrip ==
    /\ call.op = "normalize" =>
          /\ call.result = call.rel
          /\ call.result # << >> /\ Head(call.result) # sep
    /\ call.op = "denormalize" => call.result = call.path

\* the round trip on a path in which the text of the root does not recur
C17_PlainRoundTrip ==
    /\ call.op = "denormalize"
    /\ call.root = <<"/", "s">>
    /\ call.rel = <<"b", "/", "a">>
    /\ call.result = call.path

(***************************************************************************)
(* C18.  Download with a missing target directory: a download called       *)
(* while target_directory does not exist either creates nothing and ends   *)
(* with FileNotFoundError before any operation on the store (no stat, no   *)
(* listing, no fetch) and with the filesystem as it was (create_target not *)
(* requested), or makes the directory and goes on to the stat of the       *)
(* manifest (create_target requested); a download that is past its first   *)
(* step has its target directory.                                          *)
(***************************************************************************)

\* os.path.exists(target_directory)
TargetThere == PathExists(target_directory, fs, dirs)

\* download is called in this step
DownloadCalled == pc = "idle" /\ cnt'.dl = cnt.dl + 1

\* the download failed for its target directory
TargetFailure == pc = "done" /\ dl.at = "target"

\* nothing of the store has been asked for and nothing was written
NoStoreOperation ==
    /\ dl.mani = << >>
    /\ dl.listing = << >>
    /\ dl.fetched = << >>
    /\ dl.written = {}
    /\ dl.nfound = 0
    /\ fg = NoFget

C18_Step ==
    /\ (DownloadCalled /\ ~TargetThere) =>
          /\ dirs' = dirs =>
                /\ pc' = "done"
                /\ dl'.at = "target"
                /\ dl'.result = "FileNotFoundError"
                /\ fs' = fs
                /\ store' = store
          /\ dirs' # dirs =>
                /\ dirs' = makedirs(target_directory, dirs)
                /\ TargetThere'
                /\ pc' = "dl_stat"
                /\ dl'.result = "running"
                /\ fs' = fs
    /\ (DownloadCalled /\ TargetThere) =>
          /\ pc' = "dl_stat"
          /\ dirs' = dirs
    /\ TargetFailure' =>
          /\ DownloadCalled
          /\ NoStoreOperation'
          /\ ~TargetThere'
    /\ (dl'.result = "running") => TargetThere'

C18_MissingTarget == [][C18_Step]_vars

\* a download ended for its missing target directory, nothing created
C18_Witness ==
    /\ TargetFailure
    /\ dl.result = "FileNotFoundError"
    /\ ~TargetThere
    /\ NoStoreOperation

(***************************************************************************)
(* DJArchiveClient.client(admin), on every configuration of the four       *)
(* djarchive.* keys of dj.config['custom'].                                *)
(***************************************************************************)

cfg_defaults ==
    [k \in {"djarchive.bucket", "djarchive.endpoint"} |->
        IF k = "djarchive.bucket" THEN "djhub.vathes.datapub.elements"
        ELSE "s3.djhub.io"]

\* {**a, **b}
DictMerge(a, b) ==
    [k \in DOMAIN a \cup DOMAIN b |-> IF k \in DOMAIN b THEN b[k] ELSE a[k]]

\* d.get(k, None)
DictGet(d, k) == IF k \in DOMAIN d THEN d[k] ELSE None

\* the keyword arguments client() builds from the configuration
create_args(dj_custom) ==
    [k \in {"endpoint", "access_key", "secret_key", "bucket"} |->
        DictGet(DictMerge(cfg_defaults, dj_custom), "djarchive." \o k)]

\* admin and not all(('access_key' in create_args,
\*                    'secret_key' in create_args))
CredentialsMissing(admin, args) ==
    admin /\ ~("access_key" \in DOMAIN args /\ "secret_key" \in DOMAIN args)

CfgKeys == {"djarchive.bucket", "djarchive.endpoint",
            "djarchive.access_key", "djarchive.secret_key"}

CfgValues == {"v", "w"}

\* the values dj.config['custom'] can hold
Customs == UNION {[S -> CfgValues] : S \in SUBSET CfgKeys}

\* DJArchiveClient.client(admin)
ClientCall ==
    /\ pc = "idle"
    /\ \E admin \in BOOLEAN, dj_custom \in Customs :
          LET args == create_args(dj_custom) IN
          call' = [op |-> "client", admin |-> admin, custom |-> dj_custom,
                   result |-> IF CredentialsMissing(admin, args)
                              THEN "AttributeError" ELSE "client",
                   self |-> IF CredentialsMissing(admin, args)
                            THEN << >> ELSE args]
    /\ pc' = "done"
    /\ UNCHANGED <<fs, dirs, store, up, dl, fg, wm, rm, hist, cnt>>

InitClient ==
    /\ fs = << >>
    /\ dirs = {<< >>}
    /\ store = << >>
    /\ pc = "idle"
    /\ up = NoUpload
    /\ dl = NoDownload
    /\ fg = NoFget
    /\ wm = NoWrite
    /\ rm = NoRead
    /\ hist = NoHist
    /\ cnt = [up |-> 0, dl |-> 0, corrupt |-> 0, edit |-> 0]
    /\ call = NoCall

NextClient ==
    \/ ClientCall
    \/ Return

SpecClient == InitClient /\ [][NextClient]_vars

(***************************************************************************)
(* C19.  client(admin=True) on a configuration without                     *)
(* djarchive.access_key or without djarchive.secret_key raises             *)
(* AttributeError and returns no client; client(admin=False) returns a     *)
(* client whose bucket and endpoint are the configured ones, or the        *)
(* defaults where the configuration has none.                              *)
(***************************************************************************)

NoCredentials ==
    \/ "djarchive.access_key" \notin DOMAIN call.custom
    \/ "djarchive.secret_key" \notin DOMAIN call.custom

\* the configured value of the key, or its default
Configured(k) ==
    IF k \in DOMAIN call.custom THEN call.custom[k] ELSE cfg_defaults[k]

C19_AdminCredentials ==
    call.op = "client" =>
        /\ (call.admin /\ NoCredentials) => call.result = "AttributeError"
        /\ ~call.admin =>
              /\ call.result = "client"
              /\ call.self["bucket"] = Configured("djarchive.bucket")
              /\ call.self["endpoint"] = Configured("djarchive.endpoint")

\* the second half alone: a client that is returned has the configured or
\* default bucket and endpoint
C19_Defaults ==
    (call.op = "client" /\ call.result = "client") =>
        /\ call.self["bucket"] = Configured("djarchive.bucket")
        /\ call.self["endpoint"] = Configured("djarchive.endpoint")

(***************************************************************************)
(* C21.  Verify-mode upload publishes what its manifest lists: after a     *)
(* verify-mode upload into a (name, revision) that held no object before   *)
(* has completed, the subpaths of the data objects under name/revision/    *)
(* are exactly the subpaths the uploaded manifest lists; an entry whose    *)
(* file is missing from the source tree is not published.                  *)
(***************************************************************************)

\* every object of the store was put by the upload: it was empty before
PutByThisUpload == DOMAIN store = {up.log[i] : i \in 1..Len(up.log)}

VerifyUploadCompleted ==
    /\ UploadEnded
    /\ up.mode = "verify"
    /\ up.result = "ok"
    /\ PutByThisUpload

C21_VerifyPublishesManifest ==
    VerifyUploadCompleted =>
        /\ RemoteManifest.err = ""
        /\ {RemoteSubpath(k) : k \in RemoteDataKeys} = DOMAIN RemoteManifest.ret

\* a verify-mode upload of a tree that has every file of its manifest
\* publishes the subpaths of the manifest
C21_CompleteTree ==
    /\ VerifyUploadCompleted
    /\ RemoteDataKeys # {}
    /\ {RemoteSubpath(k) : k \in RemoteDataKeys} = DOMAIN RemoteManifest.ret

(***************************************************************************)
(* C22.  A create-mode upload that ends during its walk, by an exception   *)
(* or an interrupt, leaves in the source directory a manifest file that    *)
(* holds entries only for files whose put completed and lacks the entry of *)
(* some file.  As long as the source tree is not changed otherwise, every  *)
(* later upload runs in verify mode, ends with FileNotFoundError at the    *)
(* first file of its walk that has no entry, and does not put the          *)
(* manifest object: the revision stays without manifest.                   *)
(***************************************************************************)

\* a create-mode upload ended during its walk and the source tree is as it
\* was left
WalkCut == hist.walkcut

\* the file at position j of the walk has its entry in the manifest file
ListedAt(j) ==
    RelSubpath(source_directory, up.walk[j]) \in SubpathsListed

Orphans(d) ==
    {k \in {d.listing[i] : i \in 1..Len(d.listing)} :
        /\ SubpathOf(k) # MANIFEST_FNAME
        /\ SubpathOf(k) \notin DOMAIN d.mani}

\* the local path of the object the loop is at
OrphanPath == LocalPathOf(SubpathOf(CurrentObject))

\* the loop is at such an object, and its local path passes the guard
AtOrphan ==
    /\ pc = "dl_loop"
    /\ dl.idx <= Len(dl.listing)
    /\ CurrentObject \in Orphans(dl)
    /\ InsideTarget(OrphanPath)

\* the download has ended with the KeyError of the lookup
EndedAtOrphan(d, F, D) ==
    /\ d.idx <= Len(d.listing)
    /\ d.listing[d.idx] \in Orphans(d)
    /\ d.at \in {"check", "verify"}
    /\ d.at = "verify" =>
          /\ d.fetched # << >>
          /\ d.fetched[Len(d.fetched)] = d.listing[d.idx]
          /\ CanRead(d.lpath, F, D)
          /\ ReadFile(d.lpath, F, D) = store[d.listing[d.idx]]
    /\ d.at = "check" =>
          \A i \in 1..Len(d.fetched) : d.fetched[i] # d.listing[d.idx]

C23_Step ==
    /\ (Orphans(dl') # {}) => dl'.result # "complete"
    /\ (dl'.result = "KeyError") =>
          /\ pc' = "done"
          /\ EndedAtOrphan(dl', fs', dirs')
    /\ (AtOrphan /\ CanRead(OrphanPath, fs, dirs) /\ pc' # "idle") =>
          /\ pc' = "done"
          /\ dl'.result = "KeyError"
          /\ dl'.at = "check"
          /\ dl'.fetched = dl.fetched
          /\ dl'.nerr = dl.nerr
          /\ fs' = fs
    /\ (AtOrphan /\ ~PathExists(OrphanPath, fs, dirs) /\ pc' # "idle") =>
          /\ dl'.result # "KeyError"
          /\ pc' \in {"fget", "dl_verify"} =>
                /\ dl'.fetched = Append(dl.fetched, CurrentObject)
                /\ CanRead(OrphanPath, fs', dirs')
    /\ (pc = "dl_verify" /\ dl.ssubp \notin DOMAIN dl.mani /\ pc' # "idle") =>
          /\ pc' = "done"
          /\ dl'.result = "KeyError"
          /\ dl'.at = "verify"
          /\ dl'.nfound = dl.nfound
          /\ dl'.nerr = dl.nerr

C23_OrphanObjectAborts == [][C23_Step]_vars

\* an object under name/revision/ without manifest entry was fetched and
\* written, and the download ended at the check of the transferred file
C23_Witness ==
    /\ pc = "done"
    /\ dl.result = "KeyError"
    /\ dl.at = "verify"
    /\ IsPrefixSeq(KeyOf(<< >>), dl.listing[dl.idx])
    /\ CanRead(dl.lpath, fs, dirs)
    /\ dl.mani # << >>

=============================================================================
